---- MODULE Spec2Model ----
(***************************************************************************)
(* Model of packages/opal-server/opal_server/scopes/api.py: the scopes     *)
(* HTTP API of the OPAL server (setup_scopes_api).                         *)
(*                                                                         *)
(* The route handlers are `async def` coroutines on one asyncio event      *)
(* loop.  A handler gives the loop up only at an `await`; every call       *)
(* without `await` (create_puller, check, diff, pull, make_bundle) runs    *)
(* to completion before any other handler is scheduled.  The variable      *)
(* `running` holds the handler that owns the loop inside such a section.   *)
(*                                                                         *)
(* ScopeStore, the pullers, publish_changed_directories and                *)
(* validate_github_signature_or_throw are imported by api.py but are not   *)
(* part of it; they are modelled from their documented contracts.          *)
(***************************************************************************)
EXTENDS Integers, Sequences, FiniteSets, TLC

\* ---- bounds of the model ----
MaxCommit == 2
MaxScopes == 2
NumSweeps == 2

Sweepers == 1..NumSweeps

\* ---- HTTP status codes (fastapi.status) ----
HTTP_200_OK == 200
HTTP_201_CREATED == 201
HTTP_400_BAD_REQUEST == 400
HTTP_401_UNAUTHORIZED == 401
HTTP_404_NOT_FOUND == 404
\* an exception that leaves a handler uncaught is answered by the framework
HTTP_500_INTERNAL_SERVER_ERROR == 500

\* ---- the request universe ----
Urls == {"u1"}

\* bodies of POST /scopes (opal_common.schemas.scopes.Scope; url, polling and
\* source_type are fields of scope.policy)
MkScope(id, u, poll, ty) ==
  [type |-> "Scope", scope_id |-> id, url |-> u, polling |-> poll, source_type |-> ty]

ScopeBodies ==
  { MkScope("s1", "u1", TRUE, "git"),
    MkScope("s2", "u1", TRUE, "git"),
    MkScope("s3", "u1", FALSE, "git"),
    MkScope("s4", "u1", TRUE, "svn") }

\* scope.policy.directories and scope.policy.extensions of the scope with id sid
PolicyDirectories(sid) == IF sid = "s2" THEN {"docs"} ELSE {"policies"}
PolicyExtensions(sid) == {"rego"}

\* ---- the upstream repository: a linear history of commits 0, 1, 2, ... ----

MkFile(dir, name, ext) == [dir |-> dir, name |-> name, ext |-> ext]

x_rego == MkFile(<<"policies", "a">>, "x", "rego")
notes_txt == MkFile(<<"policies", "a">>, "notes", "txt")
y_rego == MkFile(<<"policies", "b">>, "y", "rego")
w_rego == MkFile(<<"policies", "b">>, "w", "rego")
readme_md == MkFile(<<"docs">>, "readme", "md")
guide_rego == MkFile(<<"docs">>, "guide", "rego")

Files == {x_rego, notes_txt, y_rego, w_rego, readme_md, guide_rego}

\* the files commit c writes (commit 0: the initial tree).  Commit 1 changes
\* files in policies/a and policies/b; commit 2 is an empty commit; the
\* commits after it change a file in docs and one in policies/a.
Changed(c) ==
  CASE c = 0 -> {x_rego, w_rego, readme_md, guide_rego}
    [] c = 1 -> {x_rego, notes_txt, y_rego}
    [] c = 2 -> {}
    [] OTHER -> {guide_rego, x_rego}

\* the commit that last wrote file f as of commit c (-1: f is not in the tree)
RECURSIVE Version(_, _)
Version(f, c) ==
  IF c < 0 THEN -1
  ELSE IF f \in Changed(c) THEN c
  ELSE Version(f, c - 1)

\* the tree of commit c
Tree(c) == {f \in Files : Version(f, c) >= 0}

\* the files the commits after `old_commit` up to `new_commit` write
ChangedPaths(old_commit, new_commit) ==
  UNION {Changed(c) : c \in (old_commit + 1)..new_commit}

\* ---- publish_changed_directories (the change notifier) ----

RECURSIVE SeqOfSet(_)
SeqOfSet(S) ==
  IF S = {} THEN <<>>
  ELSE LET x == CHOOSE y \in S : TRUE
       IN <<x>> \o SeqOfSet(S \ {x})

\* the fixed depth to which a changed path is reduced to its directory
NotifyDepth == 2

directory_of(f) ==
  SubSeq(f.dir, 1, IF Len(f.dir) < NotifyDepth THEN Len(f.dir) ELSE NotifyDepth)

\* a faulty variant: one notification per changed path, without deduplication
publish_changed_directories_per_path(old_commit, new_commit, prefix) ==
  LET paths == SeqOfSet(ChangedPaths(old_commit, new_commit))
  IN [i \in 1..Len(paths) |->
        [topic |-> prefix, directory |-> directory_of(paths[i])]]

\* the notifications sent through the publisher, in the order sent: one per
\* distinct directory of the paths changed between the two commits
publish_changed_directories(old_commit, new_commit, prefix) ==
  LET dirs == SeqOfSet({directory_of(f) : f \in ChangedPaths(old_commit, new_commit)})
  IN [i \in 1..Len(dirs) |-> [topic |-> prefix, directory |-> dirs[i]]]

ScopeIds == {b.scope_id : b \in ScopeBodies}

\* values of the Authorization header, as token sequences (" " is one space);
\* NoHeader stands for an absent header (None)
NoHeader == <<"None">>
AuthHeaders ==
  { NoHeader,
    <<>>,
    <<"Bearer", " ", "k1">>,
    <<"bearer", " ", "k1">>,
    <<"Bearer", " ", "k2">>,
    <<"Basic", " ", "k1">>,
    <<"Bearer">>,
    <<"k1">>,
    <<"Bearer", " ", " ", "k1">> }

\* values of opal_server_config.SCOPE_API_KEY
ApiKeys == { <<"k1">>, <<>> }

\* bodies of POST /scopes/webhook/github/push (opal_server.scopes.webhook.PushWebHook)
Payload(body) ==
  CASE body = 1 -> [before |-> 0, after |-> 1, urls |-> {"u1"}]
    [] OTHER    -> [before |-> 0, after |-> 1, urls |-> {"u9"}]

Bodies == {1, 2}
Events == {"push", "ping"}

\* keyed HMAC of a request body
Hmac(key, body) == (key * 3 + body * 5) % 11

\* the shared webhook secret, and a key that is not the secret
WebhookSecret == 1
OtherKey == 2

\* values of the X-Hub-Signature-256 header (0: no header)
Signatures == {0, Hmac(OtherKey, 1)} \cup {Hmac(WebhookSecret, b) : b \in Bodies}

VARIABLES
  secret,     \* opal_server_config.SCOPE_API_KEY
  registry,   \* scope_store: the registered scopes, in insertion order
  head,       \* scope_id -> tracked head commit of the scope's clone (-1: no clone)
  upstream,   \* url -> head commit of the upstream repository
  running,    \* the handler that owns the event loop (0: the loop is free)
  pc,         \* periodic_check invocation -> its position
  scopes,     \* periodic_check: the local `scopes`
  idx,        \* periodic_check: position of the for loop in `scopes`
  old,        \* periodic_check: old_commit
  new,        \* periodic_check: new_commit
  target,     \* puller.pull(): the upstream head the fetch observed
  last,       \* the response sent by the step that led here, if it sent one
  published   \* the calls of publish_changed_directories completed by the step
              \* that led here (publisher prefix, old_commit, new_commit); what a
              \* call sends is publish_changed_directories(old, new, prefix)

vars == <<secret, registry, head, upstream, running, pc, scopes, idx, old, new,
          target, last, published>>

sweepVars == <<pc, scopes, idx, old, new, target>>

\* op: the handler; sid: the scope_id of the path; status: the HTTP status;
\* torn: a bundle was built from a clone with a pull in flight; pulled: the scopes a webhook pulled; failed:
\* the call of periodic_check that raised; skipped: the polling-enabled scopes
\* periodic_check had not reached when it ended; detail: the detail of an
\* HTTPException; body: the response body, when it is a scope
NoResponse == [op |-> "none", sid |-> "none", status |-> 0, torn |-> FALSE,
               pulled |-> {}, failed |-> "none", skipped |-> {}, detail |-> <<>>,
               body |-> <<>>]

\* a step that answers no request and publishes nothing
Quiet == last' = NoResponse /\ published' = {}

Init ==
  /\ secret = <<"k1">>
  /\ registry = <<>>
  /\ head = [s \in ScopeIds |-> -1]
  /\ upstream = [u \in Urls |-> 0]
  /\ running = 0
  /\ pc = [h \in Sweepers |-> "idle"]
  /\ scopes = [h \in Sweepers |-> <<>>]
  /\ idx = [h \in Sweepers |-> 0]
  /\ old = [h \in Sweepers |-> -1]
  /\ new = [h \in Sweepers |-> -1]
  /\ target = [h \in Sweepers |-> -1]
  /\ last = NoResponse
  /\ published = {}

\* the same, for any configured key
InitAnyKey ==
  /\ secret \in ApiKeys
  /\ registry = <<>>
  /\ head = [s \in ScopeIds |-> -1]
  /\ upstream = [u \in Urls |-> 0]
  /\ running = 0
  /\ pc = [h \in Sweepers |-> "idle"]
  /\ scopes = [h \in Sweepers |-> <<>>]
  /\ idx = [h \in Sweepers |-> 0]
  /\ old = [h \in Sweepers |-> -1]
  /\ new = [h \in Sweepers |-> -1]
  /\ target = [h \in Sweepers |-> -1]
  /\ last = NoResponse
  /\ published = {}

\* ---- _check_scope_api_key ----

Lower(tok) ==
  CASE tok = "Bearer" -> "bearer"
    [] tok = "Basic" -> "basic"
    [] OTHER -> tok

\* str.partition(" "): the position of the first space, 0 when there is none
FirstSpace(str) ==
  IF \E i \in 1..Len(str) : str[i] = " "
  THEN CHOOSE i \in 1..Len(str) : str[i] = " " /\ \A j \in 1..(i - 1) : str[j] # " "
  ELSE 0

\* fastapi.security.utils.get_authorization_scheme_param
get_authorization_scheme_param(authorization) ==
  IF authorization = NoHeader \/ authorization = <<>>
  THEN [scheme |-> <<>>, param |-> <<>>]
  ELSE LET i == FirstSpace(authorization)
       IN IF i = 0
          THEN [scheme |-> authorization, param |-> <<>>]
          ELSE [scheme |-> SubSeq(authorization, 1, i - 1),
                param |-> SubSeq(authorization, i + 1, Len(authorization))]

\* a faulty variant: the token is never compared with the configured key
check_scope_api_key_scheme_only(authorization) ==
  IF authorization = NoHeader \/ authorization = <<>>
  THEN FALSE
  ELSE LET sp == get_authorization_scheme_param(authorization)
       IN ~([i \in 1..Len(sp.scheme) |-> Lower(sp.scheme[i])] # <<"bearer">>)

\* TRUE when the dependency lets the request through, FALSE when it raises 401
check_scope_api_key(authorization) ==
  IF authorization = NoHeader \/ authorization = <<>>
  THEN FALSE
  ELSE LET sp == get_authorization_scheme_param(authorization)
       IN ~(  [i \in 1..Len(sp.scheme) |-> Lower(sp.scheme[i])] # <<"bearer">>
           \/ sp.param # secret )

\* ---- the event loop ----

\* a faulty variant: handlers preempt one another inside their synchronous sections
CanRunPreemptive(h) == TRUE

\* handler h (0: a new request) may take a step: no other handler is inside a
\* section without await
CanRun(h) == running = 0 \/ running = h

\* ---- scope_store ----

IsRegistered(sid) == \E i \in 1..Len(registry) : registry[i].scope_id = sid

\* scope_store.get_scope: the scope, or ScopeNotFound
ScopeNotFound == [type |-> "ScopeNotFound", scope_id |-> "none", url |-> "none",
                  polling |-> FALSE, source_type |-> "none"]

store_get_scope(sid) ==
  IF IsRegistered(sid)
  THEN registry[CHOOSE i \in 1..Len(registry) : registry[i].scope_id = sid]
  ELSE ScopeNotFound

\* opal_server.scopes.pullers: the source types with a puller variant
PullerTypes == {"git"}

\* scope_store.all_scopes: (scope_id, scope) pairs in insertion order
Tuple2(a, b) == [type |-> "tuple", items |-> <<a, b>>]

all_scopes == [i \in 1..Len(registry) |-> Tuple2(registry[i].scope_id, registry[i])]

\* Python attribute lookup: a Scope has scope_id, policy and data; a tuple has
\* none of them (AttributeError)
HasAttr(obj, name) == obj.type = "Scope" /\ name \in {"scope_id", "policy", "data"}

\* the answer of a handler that answers in one step
Answer(op, sid, status) ==
  [NoResponse EXCEPT !.op = op, !.sid = sid, !.status = status]

\* the scope the for loop of periodic_check invocation h is at
CurScope(h) == scopes[h][idx[h]].items[2]

\* pulls in flight on the clone of scope sid
PullsInFlight(sid) ==
  {h \in Sweepers : pc[h] = "pulling" /\ CurScope(h).scope_id = sid}

\* a faulty variant: the scope returned is the first of the registry
GetScopeFirst(sid, auth) ==
  /\ CanRun(0)
  /\ last' = IF ~check_scope_api_key(auth)
             THEN Answer("get_scope", sid, HTTP_401_UNAUTHORIZED)
             ELSE IF store_get_scope(sid) = ScopeNotFound
                  THEN Answer("get_scope", sid, HTTP_404_NOT_FOUND)
                  ELSE [Answer("get_scope", sid, HTTP_200_OK)
                          EXCEPT !.body = <<registry[1]>>]
  /\ published' = {}
  /\ UNCHANGED <<secret, registry, head, upstream, running, sweepVars>>

\* GET /scopes/{scope_id}
GetScope(sid, auth) ==
  /\ CanRun(0)
  /\ last' = IF ~check_scope_api_key(auth)
             THEN Answer("get_scope", sid, HTTP_401_UNAUTHORIZED)
             ELSE IF store_get_scope(sid) = ScopeNotFound
                  THEN Answer("get_scope", sid, HTTP_404_NOT_FOUND)
                  ELSE [Answer("get_scope", sid, HTTP_200_OK)
                          EXCEPT !.body = <<store_get_scope(sid)>>]
  /\ published' = {}
  /\ UNCHANGED <<secret, registry, head, upstream, running, sweepVars>>

\* f'Invalid scope source type: {e.invalid_type}'
InvalidTypeDetail(invalid_type) == <<"Invalid scope source type: ", invalid_type>>

\* a faulty variant: the source type is not validated
AddScopeUnvalidated(scope, auth) ==
  /\ CanRun(0)
  /\ IF ~check_scope_api_key(auth)
     THEN /\ last' = Answer("add_scope", scope.scope_id, HTTP_401_UNAUTHORIZED)
          /\ UNCHANGED <<registry, head>>
     ELSE IF IsRegistered(scope.scope_id)
     THEN /\ last' = Answer("add_scope", scope.scope_id, HTTP_201_CREATED)
          /\ UNCHANGED <<registry, head>>
     ELSE /\ Len(registry) < MaxScopes
          /\ last' = Answer("add_scope", scope.scope_id, HTTP_201_CREATED)
          /\ registry' = Append(registry, scope)
          /\ head' = [head EXCEPT ![scope.scope_id] = upstream[scope.url]]
  /\ published' = {}
  /\ UNCHANGED <<secret, upstream, running, sweepVars>>

\* POST /scopes
AddScope(scope, auth) ==
  /\ CanRun(0)
  /\ IF ~check_scope_api_key(auth)
     THEN /\ last' = Answer("add_scope", scope.scope_id, HTTP_401_UNAUTHORIZED)
          /\ UNCHANGED <<registry, head>>
     ELSE IF scope.source_type \notin PullerTypes
     THEN /\ last' = [Answer("add_scope", scope.scope_id, HTTP_400_BAD_REQUEST)
                        EXCEPT !.detail = InvalidTypeDetail(scope.source_type)]
          /\ UNCHANGED <<registry, head>>
     ELSE IF IsRegistered(scope.scope_id)
     THEN /\ last' = Answer("add_scope", scope.scope_id, HTTP_201_CREATED)
          /\ UNCHANGED <<registry, head>>
     ELSE /\ Len(registry) < MaxScopes
          /\ last' = Answer("add_scope", scope.scope_id, HTTP_201_CREATED)
          /\ registry' = Append(registry, scope)
          /\ head' = [head EXCEPT ![scope.scope_id] = upstream[scope.url]]
  /\ published' = {}
  /\ UNCHANGED <<secret, upstream, running, sweepVars>>

\* ---- the bundle maker ----

\* base_hash: no hash given (None)
NoBase == -1

\* values of the query parameter base_hash: none, or the hash of a commit
BaseHashes == {NoBase} \cup (0..MaxCommit)

\* BundleMaker(repo, directories, extensions=..., manifest_filename=...)
BundleMaker(repo, directories, extensions) ==
  [repo |-> repo, directories |-> directories, extensions |-> extensions]

\* the files of a set that lie under the selected directories and have a
\* selected extension
Selection(bundle_maker, files) ==
  {f \in files : f.dir[1] \in bundle_maker.directories
                   /\ f.ext \in bundle_maker.extensions}

\* make_bundle(bundle_maker, repo, base_hash); repo is the clone, given by the
\* commit its head is at.  A base_hash that is absent or not a commit of the
\* clone gives the full bundle, otherwise the diff from that commit.
make_bundle(bundle_maker, repo, base_hash) ==
  IF base_hash = NoBase \/ base_hash \notin 0..repo
  THEN [hash |-> repo, old_hash |-> NoBase,
        files |-> Selection(bundle_maker, Tree(repo))]
  ELSE [hash |-> repo, old_hash |-> base_hash,
        files |-> Selection(bundle_maker, ChangedPaths(base_hash, repo))]

\* a faulty variant: base_hash is not handed to make_bundle
GetScopePolicyFull(sid, base_hash) ==
  /\ CanRun(0)
  /\ last' = IF store_get_scope(sid) = ScopeNotFound
             THEN Answer("get_scope_policy", sid, HTTP_500_INTERNAL_SERVER_ERROR)
             ELSE LET repo == head[store_get_scope(sid).scope_id]
                      bundle_maker == BundleMaker(repo, PolicyDirectories(sid),
                                                  PolicyExtensions(sid))
                  IN [Answer("get_scope_policy", sid, HTTP_200_OK)
                        EXCEPT !.torn = PullsInFlight(sid) # {},
                               !.body = <<make_bundle(bundle_maker, repo, NoBase)>>]
  /\ published' = {}
  /\ UNCHANGED <<secret, registry, head, upstream, running, sweepVars>>

\* a faulty variant: the clone is brought up to date before the bundle is made
GetScopePolicyPulls(sid, base_hash) ==
  /\ CanRun(0)
  /\ IF store_get_scope(sid) = ScopeNotFound
     THEN /\ last' = Answer("get_scope_policy", sid, HTTP_500_INTERNAL_SERVER_ERROR)
          /\ UNCHANGED head
     ELSE LET repo == upstream[store_get_scope(sid).url]
              bundle_maker == BundleMaker(repo, PolicyDirectories(sid),
                                          PolicyExtensions(sid))
          IN /\ last' = [Answer("get_scope_policy", sid, HTTP_200_OK)
                           EXCEPT !.torn = PullsInFlight(sid) # {},
                                  !.body = <<make_bundle(bundle_maker, repo, base_hash)>>]
             /\ head' = [head EXCEPT ![sid] = repo]
  /\ published' = {}
  /\ UNCHANGED <<secret, registry, upstream, running, sweepVars>>

\* GET /scopes/{scope_id}/policy?base_hash=...
GetScopePolicy(sid, base_hash) ==
  /\ CanRun(0)
  /\ last' = IF store_get_scope(sid) = ScopeNotFound
             THEN Answer("get_scope_policy", sid, HTTP_500_INTERNAL_SERVER_ERROR)
             ELSE LET repo == head[store_get_scope(sid).scope_id]
                      bundle_maker == BundleMaker(repo, PolicyDirectories(sid),
                                                  PolicyExtensions(sid))
                  IN [Answer("get_scope_policy", sid, HTTP_200_OK)
                        EXCEPT !.torn = PullsInFlight(sid) # {},
                               !.body = <<make_bundle(bundle_maker, repo, base_hash)>>]
  /\ published' = {}
  /\ UNCHANGED <<secret, registry, head, upstream, running, sweepVars>>

\* GET /scopes/{scope_id}/data
GetScopeData(sid) ==
  /\ CanRun(0)
  /\ last' = IF store_get_scope(sid) = ScopeNotFound
             THEN Answer("get_scope_data_config", sid, HTTP_500_INTERNAL_SERVER_ERROR)
             ELSE Answer("get_scope_data_config", sid, HTTP_200_OK)
  /\ published' = {}
  /\ UNCHANGED <<secret, registry, head, upstream, running, sweepVars>>

\* ---- the pullers (git-polling) ----

\* puller.check(): the upstream has commits beyond the tracked head
puller_check(scope) == upstream[scope.url] > head[scope.scope_id]

\* puller.diff(): (old_commit, new_commit)
puller_diff(scope) == <<head[scope.scope_id], upstream[scope.url]>>

\* ---- POST /scopes/periodic-check ----

\* the polling-enabled scopes after the position of the for loop
Unreached(h) ==
  {scopes[h][i].items[1] : i \in {j \in (idx[h] + 1)..Len(scopes[h]) : scopes[h][j].items[2].polling}}

\* periodic_check invocation h ends and is answered; its locals are gone
Return(h, status, op) ==
  /\ pc' = [pc EXCEPT ![h] = "idle"]
  /\ last' = [Answer("periodic_check", "none", status) EXCEPT
                !.failed = op, !.skipped = Unreached(h)]
  /\ scopes' = [scopes EXCEPT ![h] = <<>>]
  /\ idx' = [idx EXCEPT ![h] = 0]
  /\ old' = [old EXCEPT ![h] = -1]
  /\ new' = [new EXCEPT ![h] = -1]
  /\ target' = [target EXCEPT ![h] = -1]
  /\ running' = 0

\* an exception leaves periodic_check: nothing in the handler catches it
Raise(h, op) == Return(h, HTTP_500_INTERNAL_SERVER_ERROR, op)

\* the for loop moves on to the next scope
Continue(h) ==
  /\ pc' = [pc EXCEPT ![h] = "loop"]
  /\ idx' = [idx EXCEPT ![h] = @ + 1]
  /\ old' = [old EXCEPT ![h] = -1]
  /\ new' = [new EXCEPT ![h] = -1]
  /\ target' = [target EXCEPT ![h] = -1]
  /\ running' = h
  /\ last' = NoResponse
  /\ UNCHANGED scopes

\* the request arrives: the dependency _check_scope_api_key, then
\* scopes = await scope_store.all_scopes().  Invocations are interchangeable:
\* a request becomes the first invocation that is not in flight.
SweepRequest(h, auth) ==
  /\ CanRun(0)
  /\ pc[h] = "idle"
  /\ \A g \in Sweepers : g < h => pc[g] # "idle"
  /\ IF ~check_scope_api_key(auth)
     THEN /\ last' = Answer("periodic_check", "none", HTTP_401_UNAUTHORIZED)
          /\ UNCHANGED <<pc, scopes, idx, running>>
     ELSE /\ last' = NoResponse
          /\ scopes' = [scopes EXCEPT ![h] = all_scopes]
          /\ idx' = [idx EXCEPT ![h] = 1]
          /\ pc' = [pc EXCEPT ![h] = "loop"]
          /\ running' = h
  /\ published' = {}
  /\ UNCHANGED <<secret, registry, head, upstream, old, new, target>>

\* a faulty variant: every scope is taken as not polled
SweepCheckSkipsAll(h, outcome) ==
  /\ CanRun(h)
  /\ pc[h] = "loop"
  /\ outcome = "ok"
  /\ IF idx[h] > Len(scopes[h])
     THEN Return(h, HTTP_200_OK, "none")
     ELSE Continue(h)
  /\ published' = {}
  /\ UNCHANGED <<secret, registry, head, upstream>>

\* a faulty variant: the polling flag of a scope is not looked at
SweepCheckAnyScope(h, outcome) ==
  /\ CanRun(h)
  /\ pc[h] = "loop"
  /\ IF idx[h] > Len(scopes[h])
     THEN /\ outcome = "ok"
          /\ Return(h, HTTP_200_OK, "none")
     ELSE IF outcome # "ok"
     THEN Raise(h, outcome)
     ELSE IF puller_check(CurScope(h))
     THEN /\ pc' = [pc EXCEPT ![h] = "diff"]
          /\ running' = h
          /\ last' = NoResponse
          /\ UNCHANGED <<scopes, idx, old, new, target>>
     ELSE Continue(h)
  /\ published' = {}
  /\ UNCHANGED <<secret, registry, head, upstream>>

\* the head of the for loop: the handler returns, skips a scope that is not
\* polled, or creates the scope's puller and calls puller.check()
SweepCheck(h, outcome) ==
  /\ CanRun(h)
  /\ pc[h] = "loop"
  /\ IF idx[h] > Len(scopes[h])
     THEN /\ outcome = "ok"
          /\ Return(h, HTTP_200_OK, "none")
     ELSE IF ~CurScope(h).polling
     THEN /\ outcome = "ok"
          /\ Continue(h)
     ELSE IF outcome # "ok"
     THEN Raise(h, outcome)
     ELSE IF puller_check(CurScope(h))
     THEN /\ pc' = [pc EXCEPT ![h] = "diff"]
          /\ running' = h
          /\ last' = NoResponse
          /\ UNCHANGED <<scopes, idx, old, new, target>>
     ELSE Continue(h)
  /\ published' = {}
  /\ UNCHANGED <<secret, registry, head, upstream>>

\* old_commit, new_commit = puller.diff()
SweepDiff(h, outcome) ==
  /\ CanRun(h)
  /\ pc[h] = "diff"
  /\ IF outcome # "ok"
     THEN Raise(h, outcome)
     ELSE LET d == puller_diff(CurScope(h))
          IN /\ old' = [old EXCEPT ![h] = d[1]]
             /\ new' = [new EXCEPT ![h] = d[2]]
             /\ pc' = [pc EXCEPT ![h] = "pull"]
             /\ running' = h
             /\ last' = NoResponse
             /\ UNCHANGED <<scopes, idx, target>>
  /\ published' = {}
  /\ UNCHANGED <<secret, registry, head, upstream>>

\* puller.pull() starts: the fetch reads the upstream head
SweepPullBegin(h) ==
  /\ CanRun(h)
  /\ pc[h] = "pull"
  /\ target' = [target EXCEPT ![h] = upstream[CurScope(h).url]]
  /\ pc' = [pc EXCEPT ![h] = "pulling"]
  /\ running' = h
  /\ Quiet
  /\ UNCHANGED <<secret, registry, head, upstream, scopes, idx, old, new>>

\* a faulty variant: a failed pull is caught and the handler goes on to publish
SweepPullEndSwallowed(h, outcome) ==
  /\ CanRun(h)
  /\ pc[h] = "pulling"
  /\ IF outcome = "ok"
     THEN head' = [head EXCEPT ![CurScope(h).scope_id] = target[h]]
     ELSE UNCHANGED head
  /\ target' = [target EXCEPT ![h] = -1]
  /\ pc' = [pc EXCEPT ![h] = "publish"]
  /\ running' = 0
  /\ last' = NoResponse
  /\ published' = {}
  /\ UNCHANGED <<secret, registry, upstream, scopes, idx, old, new>>

\* puller.pull() ends: the clone is fast-forwarded and the tracked head
\* written, or the fetch fails (network error, timeout) and both stay as they
\* were.  The handler then reaches `await publish_changed_directories`.
SweepPullEnd(h, outcome) ==
  /\ CanRun(h)
  /\ pc[h] = "pulling"
  /\ IF outcome # "ok"
     THEN /\ Raise(h, outcome)
          /\ UNCHANGED head
     ELSE /\ head' = [head EXCEPT ![CurScope(h).scope_id] = target[h]]
          /\ target' = [target EXCEPT ![h] = -1]
          /\ pc' = [pc EXCEPT ![h] = "publish"]
          /\ running' = 0
          /\ last' = NoResponse
          /\ UNCHANGED <<scopes, idx, old, new>>
  /\ published' = {}
  /\ UNCHANGED <<secret, registry, upstream>>

\* await publish_changed_directories(old_commit, new_commit, publisher) with
\* publisher prefix scope.scope_id; the for loop continues when it returns
SweepPublish(h, outcome) ==
  /\ CanRun(h)
  /\ pc[h] = "publish"
  /\ IF outcome # "ok"
     THEN /\ Raise(h, outcome)
          /\ published' = {}
     ELSE /\ published' =
               {[prefix |-> CurScope(h).scope_id, old |-> old[h], new |-> new[h]]}
          /\ Continue(h)
  /\ UNCHANGED <<secret, registry, head, upstream>>

\* ---- POST /scopes/webhook/github/push ----

\* validate_github_signature_or_throw: the signature header is the HMAC of the
\* raw request body under the shared secret
validate_github_signature(body, sig) == sig = Hmac(WebhookSecret, body)

\* the positions in `scopes` whose scope.policy.url is one of the event's urls
Matched(items, urls) == {i \in 1..Len(items) : items[i].url \in urls}

\* a faulty variant: the signature is never validated
webhook_gate_unsigned(event, body, sig) ==
  IF event # "push" THEN "ok" ELSE "push"

\* a faulty variant: the signature is validated whatever the event
webhook_gate_any_event(event, body, sig) ==
  IF ~validate_github_signature(body, sig) THEN "unauthorized"
  ELSE IF event # "push" THEN "ok" ELSE "push"

\* the head of webhook_github: an event that is no push is acknowledged, then
\* the signature is validated
webhook_gate(event, body, sig) ==
  IF event # "push" THEN "ok"
  ELSE IF ~validate_github_signature(body, sig) THEN "unauthorized"
  ELSE "push"

WebhookGithub(event, body, sig) ==
  /\ CanRun(0)
  /\ IF webhook_gate(event, body, sig) = "ok"
     THEN /\ last' = Answer("webhook_github", "none", HTTP_200_OK)
          /\ published' = {}
          /\ UNCHANGED head
     ELSE IF webhook_gate(event, body, sig) = "unauthorized"
     THEN /\ last' = Answer("webhook_github", "none", HTTP_401_UNAUTHORIZED)
          /\ published' = {}
          /\ UNCHANGED head
     ELSE LET items == all_scopes
              push == Payload(body)
          IN IF items = <<>>
             THEN /\ last' = Answer("webhook_github", "none", HTTP_200_OK)
                  /\ published' = {}
                  /\ UNCHANGED head
             ELSE IF ~HasAttr(items[1], "policy")
             THEN \* scope.policy raises AttributeError on the first item; nothing
                  \* in the handler catches it, and the scopes after it whose url
                  \* is one of the event's are not reached
                  /\ last' = [Answer("webhook_github", "none", HTTP_500_INTERNAL_SERVER_ERROR)
                               EXCEPT !.failed = "AttributeError",
                                      !.skipped = {items[i].items[1] :
                                         i \in {j \in 2..Len(items) :
                                                  items[j].items[2].url \in push.urls}}]
                  /\ published' = {}
                  /\ UNCHANGED head
             ELSE LET m == Matched(items, push.urls)
                  IN /\ head' = [s \in ScopeIds |->
                            IF \E i \in m : items[i].scope_id = s
                            THEN upstream[store_get_scope(s).url] ELSE head[s]]
                     /\ published' =
                            {[prefix |-> items[i].scope_id, old |-> push.before,
                              new |-> push.after] : i \in m}
                     /\ last' = [Answer("webhook_github", "none", HTTP_200_OK) EXCEPT
                                   !.pulled = {items[i].scope_id : i \in m}]
  /\ UNCHANGED <<secret, registry, upstream, running, sweepVars>>

\* ---- the environment ----

\* the upstream repository receives a commit (fast-forward only)
UpstreamAdvance(u) ==
  /\ upstream[u] < MaxCommit
  /\ upstream' = [upstream EXCEPT ![u] = @ + 1]
  /\ Quiet
  /\ UNCHANGED <<secret, registry, head, running, sweepVars>>

\* how a call of periodic_check ends: it returns, or it raises
CheckOutcomes == {"ok", "create_puller", "check"}

\* the Authorization header of a client that holds the key "k1"
ClientAuth == <<"Bearer", " ", "k1">>

\* The server under authorized clients: any number of periodic_check
\* invocations in flight, registrations, bundle reads and signed push events,
\* while the upstream advances.
Next ==
  \/ \E u \in Urls : UpstreamAdvance(u)
  \/ \E scope \in ScopeBodies : AddScope(scope, ClientAuth)
  \/ \E sid \in ScopeIds : GetScopePolicy(sid, NoBase)
  \/ \E h \in Sweepers : SweepRequest(h, ClientAuth)
  \/ \E h \in Sweepers, outcome \in CheckOutcomes : SweepCheck(h, outcome)
  \/ \E h \in Sweepers, outcome \in {"ok", "diff"} : SweepDiff(h, outcome)
  \/ \E h \in Sweepers : SweepPullBegin(h)
  \/ \E h \in Sweepers, outcome \in {"ok", "pull"} : SweepPullEnd(h, outcome)
  \/ \E h \in Sweepers, outcome \in {"ok", "publish"} : SweepPublish(h, outcome)
  \/ \E body \in Bodies : WebhookGithub("push", body, Hmac(WebhookSecret, body))

Spec == Init /\ [][Next]_vars

\* the scopes the clients of SpecApi know: one polled, one not polled, one of
\* a source type without a puller
ApiBodies == {b \in ScopeBodies : b.scope_id # "s2"}
ApiIds == {b.scope_id : b \in ApiBodies}

\* The server under arbitrary requests to the scope endpoints, for any
\* configured key: every Authorization header value, one periodic_check at a
\* time.
NextApi ==
  \/ \E u \in Urls : UpstreamAdvance(u)
  \/ \E sid \in ApiIds, auth \in AuthHeaders : GetScope(sid, auth)
  \/ \E scope \in ApiBodies, auth \in AuthHeaders : AddScope(scope, auth)
  \/ \E sid \in ApiIds : GetScopePolicy(sid, NoBase)
  \/ \E sid \in ApiIds : GetScopeData(sid)
  \/ \E auth \in AuthHeaders : SweepRequest(1, auth)
  \/ \E outcome \in CheckOutcomes : SweepCheck(1, outcome)
  \/ \E outcome \in {"ok", "diff"} : SweepDiff(1, outcome)
  \/ SweepPullBegin(1)
  \/ \E outcome \in {"ok", "pull"} : SweepPullEnd(1, outcome)
  \/ \E outcome \in {"ok", "publish"} : SweepPublish(1, outcome)

SpecApi == InitAnyKey /\ [][NextApi]_vars

\* The server under arbitrary webhook requests: every event, body and
\* signature header, while an authorized client registers scopes and runs one
\* periodic_check at a time, and the upstream advances.
NextHook ==
  \/ \E u \in Urls : UpstreamAdvance(u)
  \/ \E scope \in ScopeBodies : AddScope(scope, ClientAuth)
  \/ SweepRequest(1, ClientAuth)
  \/ \E outcome \in CheckOutcomes : SweepCheck(1, outcome)
  \/ \E outcome \in {"ok", "diff"} : SweepDiff(1, outcome)
  \/ SweepPullBegin(1)
  \/ \E outcome \in {"ok", "pull"} : SweepPullEnd(1, outcome)
  \/ \E outcome \in {"ok", "publish"} : SweepPublish(1, outcome)
  \/ \E event \in Events, body \in Bodies, sig \in Signatures :
        WebhookGithub(event, body, sig)

SpecHook == Init /\ [][NextHook]_vars

\* The server under an authorized client that registers and reads scopes
\* while bundles and data are read, one periodic_check at a time runs, push
\* and other events arrive and the upstream advances.
NextStore ==
  \/ \E u \in Urls : UpstreamAdvance(u)
  \/ \E sid \in ScopeIds : GetScope(sid, ClientAuth)
  \/ \E scope \in ScopeBodies : AddScope(scope, ClientAuth)
  \/ \E sid \in ScopeIds, base_hash \in BaseHashes : GetScopePolicy(sid, base_hash)
  \/ \E sid \in ScopeIds : GetScopeData(sid)
  \/ SweepRequest(1, ClientAuth)
  \/ \E outcome \in CheckOutcomes : SweepCheck(1, outcome)
  \/ \E outcome \in {"ok", "diff"} : SweepDiff(1, outcome)
  \/ SweepPullBegin(1)
  \/ \E outcome \in {"ok", "pull"} : SweepPullEnd(1, outcome)
  \/ \E outcome \in {"ok", "publish"} : SweepPublish(1, outcome)
  \/ \E event \in Events, body \in Bodies :
        WebhookGithub(event, body, Hmac(WebhookSecret, body))

SpecStore == Init /\ [][NextStore]_vars

\* The server when no operation fails: an authorized client registers scopes
\* and keeps invoking periodic_check, which the event loop runs to its end,
\* while the upstream advances and then stops.
NextLive ==
  \/ \E u \in Urls : UpstreamAdvance(u)
  \/ \E scope \in ScopeBodies : AddScope(scope, ClientAuth)
  \/ SweepRequest(1, ClientAuth)
  \/ SweepCheck(1, "ok")
  \/ SweepDiff(1, "ok")
  \/ SweepPullBegin(1)
  \/ SweepPullEnd(1, "ok")
  \/ SweepPublish(1, "ok")

SpecLive ==
  /\ Init
  /\ [][NextLive]_vars
  /\ WF_vars(SweepRequest(1, ClientAuth))
  /\ WF_vars(SweepCheck(1, "ok"))
  /\ WF_vars(SweepDiff(1, "ok"))
  /\ WF_vars(SweepPullBegin(1))
  /\ WF_vars(SweepPullEnd(1, "ok"))
  /\ WF_vars(SweepPublish(1, "ok"))

\* ---- properties ----

\* C1: when a call fails for one polling-enabled scope in a periodic_check,
\* every polling-enabled scope later in the iteration is still checked: a
\* periodic_check that ended on a failure left no polling-enabled scope
\* unreached.
C1_SweepIsolatesFailures ==
  (last.op = "periodic_check" /\ last.failed # "none") => last.skipped = {}

\* C2: at most one pull is in flight on the clone of a scope at any time,
\* whatever periodic_check invocations and webhook requests are interleaved.
C2_OnePullPerScope ==
  \A sid \in ScopeIds : Cardinality(PullsInFlight(sid)) <= 1

\* a pull is in flight on a scope while another periodic_check invocation,
\* suspended in its publish, is at the same scope
C2_Witness ==
  \E h1, h2 \in Sweepers :
    /\ h1 # h2
    /\ pc[h1] = "pulling"
    /\ pc[h2] = "publish"
    /\ CurScope(h1).scope_id = CurScope(h2).scope_id

\* C3: a bundle read (GET /scopes/{scope_id}/policy) never builds its bundle
\* from a clone with a pull in flight: it runs before the pull starts or after
\* it has completed.
C3_NoTornBundle ==
  last.op = "get_scope_policy" => ~last.torn

\* a bundle of a scope was served while a periodic_check that has pulled that
\* scope is still in flight, and the bundle is of the pulled clone
C3_Witness ==
  /\ last.op = "get_scope_policy"
  /\ last.status = HTTP_200_OK
  /\ \E h \in Sweepers :
       /\ pc[h] = "publish"
       /\ CurScope(h).scope_id = last.sid
       /\ head[last.sid] = new[h]

\* C4: the tracked head of a scope changes only when a pull of that scope
\* completes, to the upstream head that pull observed, and never to an older
\* commit than the one it held: with two pulls of one scope, the head ends at
\* the head observed by the pull that ran last.
C4_HeadFollowsLastPull ==
  [][\A sid \in ScopeIds :
       (head[sid] # -1 /\ head'[sid] # head[sid]) =>
         /\ head'[sid] > head[sid]
         /\ \/ \E h \in Sweepers :
                 /\ pc[h] = "pulling"
                 /\ pc'[h] = "publish"
                 /\ CurScope(h).scope_id = sid
                 /\ head'[sid] = target[h]
            \/ /\ last'.op = "webhook_github"
               /\ sid \in last'.pulled
               /\ head'[sid] = upstream[store_get_scope(sid).url]]_vars

\* two periodic_check invocations in flight have both pulled the same scope,
\* and the tracked head is the one the later pull observed
C4_Witness ==
  \E h1, h2 \in Sweepers :
    /\ h1 # h2
    /\ pc[h1] = "publish"
    /\ pc[h2] = "publish"
    /\ CurScope(h1).scope_id = CurScope(h2).scope_id
    /\ new[h1] < new[h2]
    /\ head[CurScope(h1).scope_id] = new[h2]

\* the state a request must leave alone when it is refused or is a no-op
NoEffect ==
  /\ UNCHANGED <<registry, head, upstream, running, sweepVars>>
  /\ published' = {}

\* C5 (as claimed): a webhook request whose signature does not match its raw
\* body is rejected, and changes no state.
C5_BadSignatureRejected ==
  [][last'.op = "webhook_github" =>
     \A event \in Events, body \in Bodies, sig \in Signatures :
       (sig # Hmac(WebhookSecret, body) /\ WebhookGithub(event, body, sig)) =>
         (last'.status = HTTP_401_UNAUTHORIZED /\ NoEffect)]_vars

\* C5 (amended): a push event whose signature does not match its raw body is
\* rejected as unauthorized; an event that is no push is acknowledged without
\* its signature being looked at; neither changes any state, and a webhook
\* request pulls or publishes only if its signature matches the body it carries.
C5_BadSignatureNoEffect ==
  [][last'.op = "webhook_github" =>
     \A event \in Events, body \in Bodies, sig \in Signatures :
       WebhookGithub(event, body, sig) =>
         /\ sig # Hmac(WebhookSecret, body) =>
              /\ NoEffect
              /\ last'.pulled = {}
              /\ last'.status = IF event = "push" THEN HTTP_401_UNAUTHORIZED
                                 ELSE HTTP_200_OK
         /\ (head' # head \/ published' # {} \/ last'.pulled # {}) =>
              (event = "push" /\ sig = Hmac(WebhookSecret, body))]_vars

\* a webhook request was refused as unauthorized while scopes are registered
\* and the upstream is ahead of a tracked head
C5_Witness ==
  /\ last.op = "webhook_github"
  /\ last.status = HTTP_401_UNAUTHORIZED
  /\ \E i \in 1..Len(registry) : puller_check(registry[i])

\* C6: a signed push event pulls and notifies exactly the registered scopes
\* whose source url is one of the event's urls, each with the range
\* (event.before, event.after).
C6_PushPullsMatchingScopes ==
  [][last'.op = "webhook_github" =>
     \A body \in Bodies :
       WebhookGithub("push", body, Hmac(WebhookSecret, body)) =>
         LET m == {i \in 1..Len(registry) : registry[i].url \in Payload(body).urls}
         IN /\ last'.pulled = {registry[i].scope_id : i \in m}
            /\ published' = {[prefix |-> registry[i].scope_id,
                              old |-> Payload(body).before,
                              new |-> Payload(body).after] : i \in m}
            /\ \A i \in 1..Len(registry) :
                 head'[registry[i].scope_id] =
                   IF i \in m THEN upstream[registry[i].url]
                   ELSE head[registry[i].scope_id]]_vars

\* C7: a webhook request whose event is no push is acknowledged with a success
\* response and changes nothing: no pull, no head or registry change, no
\* notification.
C7_NonPushIsNoOp ==
  [][last'.op = "webhook_github" =>
     \A event \in Events, body \in Bodies, sig \in Signatures :
       (event # "push" /\ WebhookGithub(event, body, sig)) =>
         (last'.status = HTTP_200_OK /\ last'.pulled = {} /\ NoEffect)]_vars

\* a webhook request was acknowledged while scopes are registered and the
\* upstream is ahead of a tracked head: it was no push
C7_Witness ==
  /\ last.op = "webhook_github"
  /\ last.status = HTTP_200_OK
  /\ \E i \in 1..Len(registry) : puller_check(registry[i])

\* C8: a pull that fails or times out in periodic_check leaves the tracked
\* heads as they were, ends the invocation with nothing published for the
\* scope, and leaves check() of that scope true, so that the next
\* periodic_check retries the same upstream advance.
C8_FailedPullRetried ==
  [][\A h \in Sweepers :
       (pc[h] = "pulling" /\ SweepPullEnd(h, "pull")) =>
         /\ head' = head
         /\ published' = {}
         /\ pc'[h] = "idle"
         /\ last'.op = "periodic_check"
         /\ last'.failed = "pull"
         /\ upstream'[CurScope(h).url] > head'[CurScope(h).scope_id]]_vars

\* a periodic_check has just ended on a failed pull, and check() of a
\* registered scope is true
C8_Witness ==
  /\ last.op = "periodic_check"
  /\ last.failed = "pull"
  /\ published = {}
  /\ \E i \in 1..Len(registry) : registry[i].polling /\ puller_check(registry[i])

\* what a client put in the Authorization header: whether there is a header,
\* its scheme and its token
Credential(auth) ==
  CASE auth = NoHeader -> [present |-> FALSE, scheme |-> "", token |-> <<>>]
    [] auth = <<>> -> [present |-> FALSE, scheme |-> "", token |-> <<>>]
    [] auth = <<"Bearer", " ", "k1">> -> [present |-> TRUE, scheme |-> "bearer", token |-> <<"k1">>]
    [] auth = <<"bearer", " ", "k1">> -> [present |-> TRUE, scheme |-> "bearer", token |-> <<"k1">>]
    [] auth = <<"Bearer", " ", "k2">> -> [present |-> TRUE, scheme |-> "bearer", token |-> <<"k2">>]
    [] auth = <<"Basic", " ", "k1">> -> [present |-> TRUE, scheme |-> "basic", token |-> <<"k1">>]
    [] auth = <<"Bearer">> -> [present |-> TRUE, scheme |-> "bearer", token |-> <<>>]
    [] auth = <<"k1">> -> [present |-> TRUE, scheme |-> "k1", token |-> <<>>]
    [] auth = <<"Bearer", " ", " ", "k1">> -> [present |-> TRUE, scheme |-> "bearer", token |-> <<" ", "k1">>]

\* a missing header, a scheme that is not bearer, or a token that is not the
\* configured key
BadCredential(auth) ==
  \/ ~Credential(auth).present
  \/ Credential(auth).scheme # "bearer"
  \/ Credential(auth).token # secret

\* C9: for every configured key, a request to an admin endpoint
\* (GET /scopes/{scope_id}, POST /scopes, POST /scopes/periodic-check) with a
\* missing header, a scheme that is not bearer or a token that differs from
\* the key is answered 401 and changes no state.
C9_AdminEndpointsNeedKey ==
  [][\/ last'.status = HTTP_401_UNAUTHORIZED /\ NoEffect
     \/ /\ last'.op = "get_scope" =>
            \A auth \in AuthHeaders :
              BadCredential(auth) => ~GetScope(last'.sid, auth)
        /\ last'.op = "add_scope" =>
            \A auth \in AuthHeaders :
              \A scope \in {b \in ScopeBodies : b.scope_id = last'.sid} :
                BadCredential(auth) => ~AddScope(scope, auth)
        /\ (last'.op = "periodic_check" \/ pc' # pc) =>
            \A auth \in AuthHeaders :
              \A h \in Sweepers :
                BadCredential(auth) => ~SweepRequest(h, auth)]_vars

\* an admin request was answered 401 while the server is configured with the
\* empty key, scopes are registered and the upstream is ahead of a tracked head
C9_Witness ==
  /\ last.op \in {"get_scope", "add_scope", "periodic_check"}
  /\ last.status = HTTP_401_UNAUTHORIZED
  /\ secret = <<>>
  /\ \E i \in 1..Len(registry) : puller_check(registry[i])

\* C10: a request for a scope_id that is not registered -- GET
\* /scopes/{scope_id}, /scopes/{scope_id}/policy, /scopes/{scope_id}/data --
\* that passed authentication is answered 404.
C10_UnknownScopeIs404 ==
  ( /\ last.op \in {"get_scope", "get_scope_policy", "get_scope_data_config"}
    /\ ~IsRegistered(last.sid)
    /\ last.status # HTTP_401_UNAUTHORIZED )
  => last.status = HTTP_404_NOT_FOUND

\* C11: an authenticated POST /scopes with a scope whose source type has no
\* puller variant is answered 400 with a detail that carries the source-type
\* string and leaves the registry and the heads unchanged, so that the scope
\* is not registered (no registered scope has such a source type, and a
\* get_scope answered 200 is never for one); with a recognized source type it
\* is answered 201.
C11_InvalidSourceTypeIs400 ==
  [][/\ last'.op = "add_scope" =>
          \A auth \in AuthHeaders :
            \A scope \in {b \in ScopeBodies : b.scope_id = last'.sid} :
              (check_scope_api_key(auth) /\ AddScope(scope, auth)) =>
                IF scope.source_type \in PullerTypes
                THEN last'.status = HTTP_201_CREATED
                ELSE /\ last'.status = HTTP_400_BAD_REQUEST
                     /\ last'.detail[Len(last'.detail)] = scope.source_type
                     /\ UNCHANGED <<registry, head>>
     /\ \A i \in 1..Len(registry') : registry'[i].source_type \in PullerTypes
     /\ (last'.op = "get_scope" /\ last'.status = HTTP_200_OK) =>
          \A b \in ScopeBodies :
            b.source_type \notin PullerTypes => b.scope_id # last'.sid]_vars

\* a POST /scopes was answered 400 with the source type "svn" in its detail
\* while another scope is registered
C11_Witness ==
  /\ last.op = "add_scope"
  /\ last.status = HTTP_400_BAD_REQUEST
  /\ last.detail = InvalidTypeDetail("svn")
  /\ registry # <<>>
  /\ ~IsRegistered(last.sid)

\* C12: a scope registered by add_scope stays in the registry as it was sent,
\* whatever reads, sweeps, webhooks and registrations of other scope_ids come
\* after it, and a get_scope of its scope_id answered 200 returns a scope equal
\* to it.
C12_GetReturnsRegistered ==
  [][/\ \A i \in 1..Len(registry) :
          /\ i <= Len(registry')
          /\ registry'[i] = registry[i]
     /\ last'.op = "add_scope" =>
          \A scope \in {b \in ScopeBodies : b.scope_id = last'.sid} :
            (AddScope(scope, ClientAuth) /\ ~IsRegistered(scope.scope_id)
               /\ last'.status = HTTP_201_CREATED) =>
              registry'[Len(registry')] = scope
     /\ (last'.op = "get_scope" /\ IsRegistered(last'.sid)) =>
          /\ last'.status = HTTP_200_OK
          /\ \E i \in 1..Len(registry) :
               /\ registry[i].scope_id = last'.sid
               /\ last'.body = <<registry[i]>>]_vars

\* a get_scope returned the scope registered first, after a second scope was
\* registered and a periodic_check pulled the first
C12_Witness ==
  /\ last.op = "get_scope"
  /\ last.status = HTTP_200_OK
  /\ Len(registry) = 2
  /\ last.body = <<registry[1]>>
  /\ head[last.sid] > 0

\* the directories that hold a file that differs between two commits
DirectoriesDiffering(a, b) ==
  {f.dir : f \in {g \in Files : Version(g, a) # Version(g, b)}}

\* C13: every call of publish_changed_directories publishes exactly one
\* notification per distinct directory with a file that differs between the
\* two commits, and none for a range without changes; the range whose changed
\* files lie in policies/a and policies/b yields exactly two notifications.
C13_OneNotificationPerDirectory ==
  \A call \in published :
    LET n == publish_changed_directories(call.old, call.new, call.prefix)
        dirs == DirectoriesDiffering(call.old, call.new)
    IN /\ \A d \in dirs : Cardinality({i \in 1..Len(n) : n[i].directory = d}) = 1
       /\ \A i \in 1..Len(n) : n[i].directory \in dirs
       /\ dirs = {} => n = <<>>
       /\ dirs = {<<"policies", "a">>, <<"policies", "b">>} => Len(n) = 2

\* a periodic_check published the range whose changed files lie in policies/a
\* (two files) and policies/b
C13_Witness ==
  \E call \in published :
    /\ DirectoriesDiffering(call.old, call.new) =
         {<<"policies", "a">>, <<"policies", "b">>}
    /\ Cardinality(ChangedPaths(call.old, call.new)) = 3
    /\ Len(publish_changed_directories(call.old, call.new, call.prefix)) = 2

\* C14: a bundle requested with base_hash = hash(A), A an ancestor of the
\* commit B the clone is at, has old_hash = hash(A) and holds exactly the
\* files that differ between A and B under the scope's directories and
\* extensions; a bundle requested without base_hash holds the whole selection
\* at B and has no old_hash.
C14_BundleIsDiffOrFull ==
  [][(last'.op = "get_scope_policy" /\ last'.status = HTTP_200_OK) =>
       \A base_hash \in BaseHashes :
         GetScopePolicy(last'.sid, base_hash) =>
           LET bundle == last'.body[1]
               B == head[last'.sid]
               selected(f) == /\ f.dir[1] \in PolicyDirectories(last'.sid)
                              /\ f.ext \in PolicyExtensions(last'.sid)
           IN /\ base_hash = NoBase =>
                   /\ bundle.old_hash = NoBase
                   /\ bundle.files =
                        {f \in Files : Version(f, B) >= 0 /\ selected(f)}
              /\ (base_hash # NoBase /\ base_hash <= B) =>
                   /\ bundle.old_hash = base_hash
                   /\ bundle.files =
                        {f \in Files : Version(f, base_hash) # Version(f, B)
                                         /\ selected(f)}]_vars

\* a diff bundle from commit 0 was served for a clone at a later commit: it
\* holds the two changed policy files and not the unchanged one, which a full
\* bundle holds
C14_Witness ==
  /\ last.op = "get_scope_policy"
  /\ last.status = HTTP_200_OK
  /\ head[last.sid] > 0
  /\ last.body[1].old_hash = 0
  /\ last.body[1].files = {x_rego, y_rego}
  /\ w_rego \in Tree(head[last.sid])

\* C15: when periodic_check keeps being invoked and no operation fails, then
\* once the upstream has stopped advancing the tracked head of every
\* polling-enabled scope eventually equals the upstream head and stays equal.
C15_HeadsConverge ==
  <>[](\A i \in 1..Len(registry) :
         registry[i].polling =>
           head[registry[i].scope_id] = upstream[registry[i].url])

\* a periodic_check has just pulled a scope up to the last commit of the
\* upstream and is about to publish the range
C15_Witness ==
  /\ pc[1] = "publish"
  /\ new[1] = MaxCommit
  /\ old[1] < new[1]
  /\ head[CurScope(1).scope_id] = MaxCommit
  /\ upstream[CurScope(1).url] = MaxCommit

\* C16: when a push event matches several scopes and the handling of one of
\* them fails, the matched scopes after it are still pulled and notified: a
\* webhook_github that ended on a failure left no matched scope unreached.
C16_WebhookIsolatesFailures ==
  (last.op = "webhook_github" /\ last.failed # "none") => last.skipped = {}

C18_SweepOrder ==
  [][(UNCHANGED <<sweepVars, head>> /\ published' = {}) \/ \A h \in Sweepers :
       /\ pc'[h] \in {"diff", "pull", "pulling", "publish"} =>
            scopes'[h][idx'[h]].items[2].polling
       /\ (pc'[h] = "diff" /\ pc[h] # "diff") =>
            (pc[h] = "loop" /\ puller_check(CurScope(h)))
       /\ (pc'[h] = "pull" /\ pc[h] # "pull") =>
            /\ pc[h] = "diff"
            /\ <<old'[h], new'[h]>> = puller_diff(CurScope(h))
       /\ (pc'[h] = "pulling" /\ pc[h] # "pulling") => pc[h] = "pull"
       /\ (pc'[h] = "publish" /\ pc[h] # "publish") =>
            /\ pc[h] = "pulling"
            /\ head'[CurScope(h).scope_id] = target[h]
       /\ (pc[h] \in {"pull", "pulling", "publish"}
             /\ pc'[h] \in {"pull", "pulling", "publish"}) =>
            /\ UNCHANGED <<old[h], new[h], idx[h], scopes[h]>>
       /\ (pc[h] = "publish" /\ pc'[h] # "publish" /\ published' # {}) =>
            published' = {[prefix |-> CurScope(h).scope_id,
                           old |-> old[h], new |-> new[h]]}
       /\ (published' # {} /\ last'.op # "webhook_github") =>
            \E g \in Sweepers : pc[g] = "publish" /\ pc'[g] # "publish"
       /\ \A sid \in ScopeIds :
            (head[sid] # -1 /\ head'[sid] # head[sid]) =>
              store_get_scope(sid).polling]_vars

\* a periodic_check has passed over a scope with polling disabled and has
\* pulled the polling-enabled scope after it
C18_Witness ==
  \E h \in Sweepers :
    /\ pc[h] = "publish"
    /\ idx[h] > 1
    /\ ~scopes[h][1].items[2].polling
    /\ head[scopes[h][1].items[1]] < upstream[scopes[h][1].items[2].url]
    /\ head[CurScope(h).scope_id] = new[h]

\* C19: GET /scopes/{scope_id}, GET /scopes/{scope_id}/policy, GET
\* /scopes/{scope_id}/data and a step of periodic_check in which check() is
\* false leave every tracked head and the registry as they were and publish
\* nothing; a tracked head changes only when a pull of its scope completes.
C19_ReadsChangeNothing ==
  [][/\ last'.op \in {"get_scope", "get_scope_policy", "get_scope_data_config"} =>
          (UNCHANGED <<head, registry>> /\ published' = {})
     /\ \A h \in Sweepers :
          (/\ pc[h] = "loop"
           /\ idx[h] <= Len(scopes[h])
           /\ SweepCheck(h, "ok")
           /\ ~puller_check(CurScope(h))) =>
            (UNCHANGED <<head, registry>> /\ published' = {})
     /\ \A sid \in ScopeIds :
          (head[sid] # -1 /\ head'[sid] # head[sid]) =>
            \/ \E h \in Sweepers :
                 /\ pc[h] = "pulling"
                 /\ pc'[h] = "publish"
                 /\ CurScope(h).scope_id = sid
            \/ (last'.op = "webhook_github" /\ sid \in last'.pulled)]_vars

\* a bundle of a scope was served while the upstream is ahead of the scope's
\* tracked head and a periodic_check is in flight: the head stayed behind
C19_Witness ==
  /\ last.op = "get_scope_policy"
  /\ last.status = HTTP_200_OK
  /\ head[last.sid] < upstream[store_get_scope(last.sid).url]
  /\ last.body[1].hash = head[last.sid]
  /\ pc[1] # "idle"

\* C20: every notification published for a scope is published under the
\* scope's own scope_id as topic prefix and names a directory that lies within
\* the scope's selected directories; a change confined to directories outside
\* the selection produces no notification for the scope.
C20_NotificationsWithinSelection ==
  \A call \in published :
    LET n == publish_changed_directories(call.old, call.new, call.prefix)
    IN \A i \in 1..Len(n) :
         /\ n[i].topic = call.prefix
         /\ IsRegistered(call.prefix)
         /\ n[i].directory[1] \in PolicyDirectories(call.prefix)
====
